---- MODULE Spec2Model ----
(***************************************************************************)
(* Model of the playback-state synchronisation engine (PlaybackMonitor,    *)
(* src/src/playback_monitor.py) and of the recorder built on top of it     *)
(* (SpotifyRecorder, src/src/recorder.py).                                 *)
(*                                                                         *)
(* Time is counted in milliseconds.  One call of one operation is in       *)
(* progress at a time (the program is single threaded); every iteration of *)
(* a polling loop is one step, the remote service answers each poll with a *)
(* value the environment chooses.                                          *)
(***************************************************************************)
EXTENDS Integers, Sequences, FiniteSets, TLC

VARIABLES
    op,                 \* the operation in progress, "idle" when none
    pc,                 \* position inside the operation
    current_track_id,   \* PlaybackMonitor.current_track_id
    current_track_uri,  \* PlaybackMonitor.current_track_uri
    expected_uri,       \* argument of wait_for_track_start / wait_for_position_reset
    timeout,            \* argument of wait_for_track_start (seconds)
    max_wait,           \* argument of wait_for_position_reset / ensure_spotify_device_active (seconds)
    on_change,          \* monitor_until_track_change: TRUE when a callback is passed
    now,                \* time.time(), in ms
    start_time,         \* local start_time of the running loop
    result,             \* value returned by the operation, "pending" until it returns
    script,             \* simulated snapshot sequence fed to the polls, <<>> = free environment
    polls,              \* number of sp.current_playback() calls made by this call
    raw,                \* what the last sp.current_playback() call produced
    poll_at,            \* elapsed time at which the last poll was begun
    seen_start,         \* some poll of this call saw expected_uri playing with progress < 2000
    seen_reset,         \* some poll of this call saw expected_uri with progress < 1000
    hook_calls,         \* arguments of the on_change invocations of this call
    device_present,     \* the remote service currently enumerates a device
    device_at_call,     \* device_present when ensure_spotify_device_active was entered
    launches,           \* subprocess.Popen attempts of this call, in order
    device_polled,      \* sp.devices() has been called by this call
    device_raw,         \* what the last sp.devices() call produced, "unpolled" before the first
    ensure_result,      \* value returned by ensure_spotify_device_active
    uri,                \* argument of start_playback_web_api
    max_retries,        \* argument of start_playback_web_api
    attempt,            \* loop variable of start_playback_web_api
    last_attempt,       \* the last finished attempt: how it ended and whether the 1 s wait followed
    play_cmds,          \* sp.start_playback calls of this call, in order
    recording_process,  \* SpotifyRecorder.recording_process
    recording_pid,      \* SpotifyRecorder.recording_pid
    expected_duration_s,\* argument of record_track_simple
    run_outcome,        \* how subprocess.run(spotdl_cmd, check=True) ended
    file_exists,        \* os.path.exists(filepath) when the call ended
    file_size,          \* size of the file at filepath when the call ended
    error_kind,         \* the branch record_track_simple returned from
    cleanups,           \* number of _cleanup_recording executions of this call
    signals,            \* os.kill / pkill requests made by this call, in order
    cleanup_states,     \* <<recording_process, recording_pid>> after each of them
    remaining_ms        \* integer returned by get_remaining_time

vars == <<op, pc, current_track_id, current_track_uri, expected_uri, timeout,
          max_wait, on_change, now, start_time, result, script, polls, raw,
          poll_at, seen_start, seen_reset, hook_calls, device_present,
          device_at_call, launches, device_polled, device_raw, ensure_result,
          uri,
          max_retries, attempt, last_attempt, play_cmds, recording_process,
          recording_pid, expected_duration_s, run_outcome, file_exists,
          file_size, error_kind, cleanups, signals, cleanup_states,
          remaining_ms>>

monitorVars == <<current_track_id, current_track_uri>>
pollVars    == <<script, polls, raw, poll_at, seen_start, seen_reset, hook_calls>>
monArgVars  == <<expected_uri, timeout, on_change>>
deviceVars  == <<device_at_call, launches, device_polled, device_raw,
                 ensure_result>>
startVars   == <<uri, max_retries, attempt, last_attempt, play_cmds>>
recorderVars == <<recording_process, recording_pid>>
recCallVars == <<expected_duration_s, run_outcome, file_exists, file_size,
                 error_kind, cleanups, signals, cleanup_states, remaining_ms>>

----------------------------------------------------------------------------
(* Bounds of the model *)

MaxTimeout      == 2    \* largest timeout / max_wait argument tried, in seconds
MaxPolls        == 4    \* cap on the polls of the loop that has no timeout
MaxRetriesBound == 3    \* largest max_retries argument tried
MaxLatencyTicks == 1    \* a remote call takes 0..MaxLatencyTicks * 500 ms
MaxCleanupRuns  == 2    \* largest number of successive _cleanup_recording calls

(* Constants of the program *)

PollIntervalMs   == 500     \* poll_interval = 0.5
StartWindowMs    == 2000    \* progress_ms < 2000
ResetWindowMs    == 1000    \* progress_ms < 1000
DefaultMaxWait   == 15      \* max_wait: int = 15
SettleMs         == 2000    \* time.sleep(2) after the play command
RetryWaitMs      == 1000    \* time.sleep(1) before a retry
DevicePollMs     == 1000    \* time.sleep(1) between device polls

Uris         == {"uriX", "uriY"}
ProgressVals == {200, 500, 1000, 1500, 2000, 5000}
DurationVals == {180000}
Latencies    == {k * 500 : k \in 0..MaxLatencyTicks}

IdOf(u) == IF u = "uriX" THEN "idX" ELSE IF u = "uriY" THEN "idY" ELSE "None"

----------------------------------------------------------------------------
(* What sp.current_playback() can produce *)

\* the call raised
Unavailable ==
    [kind |-> "error", uri |-> "None", id |-> "None", is_playing |-> FALSE,
     progress_ms |-> 0, duration_ms |-> 0]

\* the call returned None: nothing is playing
NoPlayback ==
    [kind |-> "none", uri |-> "None", id |-> "None", is_playing |-> FALSE,
     progress_ms |-> 0, duration_ms |-> 0]

\* the call returned a playback object whose 'item' is None
NoItem ==
    [kind |-> "noitem", uri |-> "None", id |-> "None", is_playing |-> FALSE,
     progress_ms |-> 0, duration_ms |-> 0]

Item(u, playing, progress, duration) ==
    [kind |-> "item", uri |-> u, id |-> IdOf(u), is_playing |-> playing,
     progress_ms |-> progress, duration_ms |-> duration]

Items == {Item(u, p, g, d) : u \in Uris, p \in BOOLEAN, g \in ProgressVals, d \in DurationVals}

RawResponses == {Unavailable, NoPlayback, NoItem} \cup Items

\* Simulated snapshot sequences
ScriptStartOk   == <<NoPlayback, NoPlayback, Item("uriX", TRUE, 500, 180000)>>
ScriptStartLate == <<NoPlayback, NoPlayback, Item("uriX", TRUE, 5000, 180000)>>
ScriptStopped   == <<NoPlayback, NoPlayback, NoPlayback>>
ScriptTransient == <<Unavailable, Item("uriX", TRUE, 1500, 180000)>>
ScriptReset     == <<Item("uriX", TRUE, 1500, 180000), Item("uriX", TRUE, 200, 180000)>>
\* a one-second track played on repeat
ScriptRepeat    == <<Item("uriX", TRUE, 200, 1000), Item("uriX", TRUE, 700, 1000),
                     Item("uriX", TRUE, 200, 1000)>>
Scripts == {<<>>, ScriptStartOk, ScriptStartLate, ScriptStopped, ScriptTransient,
            ScriptReset, ScriptRepeat}

\* Snapshots whose progress has reached or passed the duration; only
\* get_remaining_time reads the duration
SuspectItems == {Item(u, TRUE, g, 2000) : u \in Uris, g \in {2000, 5000}}

\* The answers the next poll can get: the next element of the script (its
\* last element once it is used up), or anything when there is no script.
PollResponses ==
    IF script = <<>> THEN RawResponses
    ELSE {script[IF polls + 1 <= Len(script) THEN polls + 1 ELSE Len(script)]}

----------------------------------------------------------------------------
(* PlaybackMonitor *)

\* get_playback_state without the try: the exception reaches the caller
get_playback_state_Propagates(r) == r

\* get_playback_state: an exception of the remote call becomes None
get_playback_state(r) == IF r.kind = "error" THEN NoPlayback ELSE r

\* "not playback or not playback.get('item')"
NothingPlaying(playback) == playback.kind # "item"

\* wait_for_track_start with an inclusive window (progress_ms <= 2000)
TrackStarted_InclusiveWindow(playback, expected) ==
    /\ playback.uri = expected
    /\ playback.is_playing
    /\ playback.progress_ms <= StartWindowMs

\* the success test of wait_for_track_start
TrackStarted(playback, expected) ==
    /\ playback.uri = expected
    /\ playback.is_playing
    /\ playback.progress_ms < StartWindowMs

\* wait_for_position_reset testing the window of wait_for_track_start
PositionReset_StartWindow(playback, expected) ==
    /\ playback.uri = expected
    /\ playback.progress_ms < StartWindowMs

\* the success test of wait_for_position_reset
PositionReset(playback, expected) ==
    /\ playback.uri = expected
    /\ playback.progress_ms < ResetWindowMs

\* a loop whose condition never becomes false ("while True")
WithinLimit_Forever(t, start, limit) == TRUE

\* "while time.time() - start_time < limit", limit in seconds
WithinLimit(t, start, limit) == t - start < limit * 1000

\* a monitoring loop that gives up one second after it was entered
MonitorLoopCondition_Timed(elapsed) == elapsed < 1000

\* "while True" of monitor_until_track_change
MonitorLoopCondition(elapsed) == TRUE

\* monitor_until_track_change comparing the observed id with the stored URI
MonitorStep_ComparesId(playback, cur) ==
    IF NothingPlaying(playback) THEN "stopped"
    ELSE IF playback.id # cur THEN "changed"
    ELSE "same"

\* monitor_until_track_change sleeping and polling again when nothing plays,
\* as the two wait loops do
MonitorStep_KeepsPolling(playback, cur) ==
    IF NothingPlaying(playback) THEN "same"
    ELSE IF playback.uri # cur THEN "changed"
    ELSE "same"

\* monitor_until_track_change treating an unset current_track_uri as "no
\* track to compare with"
MonitorStep_UnsetIsNoChange(playback, cur) ==
    IF NothingPlaying(playback) THEN "stopped"
    ELSE IF cur # "None" /\ playback.uri # cur THEN "changed"
    ELSE "same"

\* what one iteration of monitor_until_track_change does with a snapshot
MonitorStep(playback, cur) ==
    IF NothingPlaying(playback) THEN "stopped"
    ELSE IF playback.uri # cur THEN "changed"
    ELSE "same"

\* Observations recorded about the polls of a call, stated on what the remote
\* call produced and independently of the branch the operation then takes
InStartWindow(r, expected) ==
    r.kind = "item" /\ r.uri = expected /\ r.is_playing /\ r.progress_ms < 2000

InResetWindow(r, expected) ==
    r.kind = "item" /\ r.uri = expected /\ r.progress_ms < 1000

NoAttempt == [cause |-> "none", waited |-> FALSE]

Init ==
    /\ op = "idle"
    /\ pc = "idle"
    /\ current_track_id = "None"
    /\ current_track_uri = "None"
    /\ expected_uri = "None"
    /\ timeout = 0
    /\ max_wait = 0
    /\ on_change = FALSE
    /\ now = 0
    /\ start_time = 0
    /\ result = "pending"
    /\ script = <<>>
    /\ polls = 0
    /\ raw = NoPlayback
    /\ poll_at = 0
    /\ seen_start = FALSE
    /\ seen_reset = FALSE
    /\ hook_calls = <<>>
    /\ device_present \in BOOLEAN
    /\ device_at_call = FALSE
    /\ launches = <<>>
    /\ device_polled = FALSE
    /\ device_raw = "unpolled"
    /\ ensure_result = "pending"
    /\ uri = "None"
    /\ max_retries = 0
    /\ attempt = 0
    /\ last_attempt = NoAttempt
    /\ play_cmds = <<>>
    /\ recording_process = "None"
    /\ recording_pid = "None"
    /\ expected_duration_s = 0
    /\ run_outcome = "none"
    /\ file_exists = FALSE
    /\ file_size = 0
    /\ error_kind = "none"
    /\ cleanups = 0
    /\ signals = <<>>
    /\ cleanup_states = <<>>
    /\ remaining_ms = 0

\* wait_for_track_start(expected_uri, timeout) is called
CallWaitForTrackStart ==
    /\ op = "idle"
    /\ \E e \in Uris, t \in 0..MaxTimeout, sc \in Scripts :
          /\ expected_uri' = e
          /\ timeout' = t
          /\ script' = sc
    /\ op' = "wait_for_track_start"
    /\ pc' = "loop"
    /\ start_time' = now
    /\ UNCHANGED <<recorderVars, recCallVars,
                   monitorVars, max_wait, on_change, now, result, polls, raw,
                   poll_at, seen_start, seen_reset, hook_calls, device_present,
                   deviceVars, startVars>>

\* one iteration of the loop of wait_for_track_start
PollTrackStart ==
    /\ op = "wait_for_track_start" /\ pc = "loop"
    /\ WithinLimit(now, start_time, timeout)
    /\ \E r \in PollResponses, d \in Latencies :
         LET playback == get_playback_state(r) IN
          /\ raw' = r
          /\ polls' = polls + 1
          /\ poll_at' = now - start_time
          /\ seen_start' = (seen_start \/ InStartWindow(r, expected_uri))
          /\ IF NothingPlaying(playback)
             THEN /\ now' = now + d + PollIntervalMs
                  /\ UNCHANGED <<monitorVars, result, pc>>
             ELSE IF TrackStarted(playback, expected_uri)
             THEN /\ current_track_id' = playback.id
                  /\ current_track_uri' = playback.uri
                  /\ result' = "True"
                  /\ pc' = "done"
                  /\ now' = now + d
             ELSE /\ now' = now + d + PollIntervalMs
                  /\ UNCHANGED <<monitorVars, result, pc>>
    /\ UNCHANGED <<recorderVars, recCallVars,
                   op, monArgVars, max_wait, start_time, script, seen_reset,
                   hook_calls, device_present, deviceVars, startVars>>

\* the loop of wait_for_track_start ends: the timeout has elapsed
TimeoutTrackStart ==
    /\ op = "wait_for_track_start" /\ pc = "loop"
    /\ ~WithinLimit(now, start_time, timeout)
    /\ result' = "False"
    /\ pc' = "done"
    /\ UNCHANGED <<recorderVars, recCallVars,
                   op, monitorVars, monArgVars, max_wait, now, start_time,
                   pollVars, device_present, deviceVars, startVars>>

\* wait_for_position_reset(expected_uri, max_wait) is called
CallWaitForPositionReset ==
    /\ op = "idle"
    /\ \E e \in Uris, t \in 0..MaxTimeout, sc \in Scripts :
          /\ expected_uri' = e
          /\ max_wait' = t
          /\ script' = sc
    /\ op' = "wait_for_position_reset"
    /\ pc' = "loop"
    /\ start_time' = now
    /\ UNCHANGED <<recorderVars, recCallVars,
                   monitorVars, timeout, on_change, now, result, polls, raw,
                   poll_at, seen_start, seen_reset, hook_calls, device_present,
                   deviceVars, startVars>>

\* one iteration of the loop of wait_for_position_reset
PollPositionReset ==
    /\ op = "wait_for_position_reset" /\ pc = "loop"
    /\ WithinLimit(now, start_time, max_wait)
    /\ \E r \in PollResponses, d \in Latencies :
         LET playback == get_playback_state(r) IN
          /\ raw' = r
          /\ polls' = polls + 1
          /\ poll_at' = now - start_time
          /\ seen_reset' = (seen_reset \/ InResetWindow(r, expected_uri))
          /\ IF NothingPlaying(playback)
             THEN /\ now' = now + d + PollIntervalMs
                  /\ UNCHANGED <<result, pc>>
             ELSE IF PositionReset(playback, expected_uri)
             THEN /\ result' = "True"
                  /\ pc' = "done"
                  /\ now' = now + d
             ELSE /\ now' = now + d + PollIntervalMs
                  /\ UNCHANGED <<result, pc>>
    /\ UNCHANGED <<recorderVars, recCallVars,
                   op, monitorVars, monArgVars, max_wait, start_time, script,
                   seen_start, hook_calls, device_present, deviceVars, startVars>>

\* the loop of wait_for_position_reset ends: max_wait has elapsed
TimeoutPositionReset ==
    /\ op = "wait_for_position_reset" /\ pc = "loop"
    /\ ~WithinLimit(now, start_time, max_wait)
    /\ result' = "False"
    /\ pc' = "done"
    /\ UNCHANGED <<recorderVars, recCallVars,
                   op, monitorVars, monArgVars, max_wait, now, start_time,
                   pollVars, device_present, deviceVars, startVars>>

\* monitor_until_track_change(on_change) is called
CallMonitorUntilTrackChange ==
    /\ op = "idle"
    /\ \E h \in BOOLEAN, sc \in Scripts :
          /\ on_change' = h
          /\ script' = sc
    /\ op' = "monitor_until_track_change"
    /\ pc' = "loop"
    /\ UNCHANGED <<recorderVars, recCallVars,
                   monitorVars, expected_uri, timeout, max_wait, now,
                   start_time, result, polls, raw, poll_at, seen_start,
                   seen_reset, hook_calls, device_present, deviceVars,
                   startVars>>

\* monitor_until_track_change that stores the new track as the current one
PollMonitor_RecordsSession ==
    /\ op = "monitor_until_track_change" /\ pc = "loop"
    /\ MonitorLoopCondition(now - start_time)
    /\ polls < MaxPolls
    /\ \E r \in PollResponses, d \in Latencies :
         LET playback == get_playback_state(r)
             step     == MonitorStep(playback, current_track_uri) IN
          /\ raw' = r
          /\ polls' = polls + 1
          /\ poll_at' = now - start_time
          /\ IF step = "stopped"
             THEN /\ result' = "None"
                  /\ pc' = "done"
                  /\ now' = now + d
                  /\ UNCHANGED <<hook_calls, monitorVars>>
             ELSE IF step = "changed"
             THEN /\ hook_calls' = IF on_change
                                   THEN Append(hook_calls, <<playback.uri, playback>>)
                                   ELSE hook_calls
                  /\ current_track_id' = playback.id
                  /\ current_track_uri' = playback.uri
                  /\ result' = playback.uri
                  /\ pc' = "done"
                  /\ now' = now + d
             ELSE /\ now' = now + d + PollIntervalMs
                  /\ UNCHANGED <<result, pc, hook_calls, monitorVars>>
    /\ UNCHANGED <<recorderVars, recCallVars,
                   op, monArgVars, max_wait, start_time, script,
                   seen_start, seen_reset, device_present, deviceVars,
                   startVars>>

\* one iteration of the "while True" loop of monitor_until_track_change
PollMonitor ==
    /\ op = "monitor_until_track_change" /\ pc = "loop"
    /\ MonitorLoopCondition(now - start_time)
    /\ polls < MaxPolls
    /\ \E r \in PollResponses, d \in Latencies :
         LET playback == get_playback_state(r)
             step     == MonitorStep(playback, current_track_uri) IN
          /\ raw' = r
          /\ polls' = polls + 1
          /\ poll_at' = now - start_time
          /\ IF step = "stopped"
             THEN /\ result' = "None"
                  /\ pc' = "done"
                  /\ now' = now + d
                  /\ UNCHANGED hook_calls
             ELSE IF step = "changed"
             THEN /\ hook_calls' = IF on_change
                                   THEN Append(hook_calls, <<playback.uri, playback>>)
                                   ELSE hook_calls
                  /\ result' = playback.uri
                  /\ pc' = "done"
                  /\ now' = now + d
             ELSE /\ now' = now + d + PollIntervalMs
                  /\ UNCHANGED <<result, pc, hook_calls>>
    /\ UNCHANGED <<recorderVars, recCallVars,
                   op, monitorVars, monArgVars, max_wait, start_time, script,
                   seen_start, seen_reset, device_present, deviceVars,
                   startVars>>

\* what the caller of get_playback_state gets
FetchResult(playback) ==
    IF playback.kind = "error" THEN "raised"
    ELSE IF playback.kind = "none" THEN "None"
    ELSE "playback"

\* get_playback_state() is called on its own: one remote call
CallGetPlaybackState ==
    /\ op = "idle"
    /\ \E r \in RawResponses, d \in Latencies :
          /\ raw' = r
          /\ now' = now + d
          /\ result' = FetchResult(get_playback_state(r))
    /\ polls' = polls + 1
    /\ op' = "get_playback_state"
    /\ pc' = "done"
    /\ UNCHANGED <<recorderVars, recCallVars,
                   monitorVars, monArgVars, max_wait, start_time, script,
                   poll_at, seen_start, seen_reset, hook_calls,
                   device_present, deviceVars, startVars>>

\* get_remaining_time() is called: one snapshot, duration_ms - progress_ms
CallGetRemainingTime ==
    /\ op = "idle"
    /\ \E r \in RawResponses \cup SuspectItems, d \in Latencies :
         LET playback == get_playback_state(r) IN
          /\ raw' = r
          /\ now' = now + d
          /\ IF NothingPlaying(playback)
             THEN result' = "None" /\ remaining_ms' = 0
             ELSE /\ result' = "int"
                  /\ remaining_ms' = playback.duration_ms - playback.progress_ms
    /\ polls' = polls + 1
    /\ op' = "get_remaining_time"
    /\ pc' = "done"
    /\ UNCHANGED <<recorderVars, expected_duration_s, run_outcome, file_exists,
                   file_size, error_kind, cleanups, signals, cleanup_states,
                   monitorVars, monArgVars, max_wait, start_time, script,
                   poll_at, seen_start, seen_reset, hook_calls,
                   device_present, deviceVars, startVars>>

----------------------------------------------------------------------------
(* SpotifyRecorder: device activation and playback start *)

\* the outcomes of the two subprocess.Popen attempts: "spotify" first,
\* "/snap/bin/spotify" only when the first one raised
LaunchOutcomes ==
    { <<[cmd |-> "spotify", ok |-> TRUE]>>,
      <<[cmd |-> "spotify", ok |-> FALSE], [cmd |-> "/snap/bin/spotify", ok |-> TRUE]>>,
      <<[cmd |-> "spotify", ok |-> FALSE], [cmd |-> "/snap/bin/spotify", ok |-> FALSE]>> }

Last(seq) == seq[Len(seq)]

\* what sp.devices() can produce, given what the service enumerates
DeviceResponses ==
    IF device_present THEN {"error", "devices"} ELSE {"error", "none", "empty"}

\* "if devices:", true of the dictionary that holds an empty device list
DevicesFound_AnyDict(r) == r \in {"devices", "empty"}

\* "devices and devices.get('devices')"
DevicesFound(r) == r = "devices"

\* start_playback_web_api ignoring the result of the device activation
DeviceReady_Ignored(r) == TRUE

\* "if not self.ensure_spotify_device_active()" is not taken
DeviceReady(r) == r = "True"

\* a retry loop that runs once too often
MoreAttempts_OffByOne(a, m) == a <= m

\* a retry loop whose body runs before the count is tested
MoreAttempts_AtLeastOnce(a, m) == a = 0 \/ a < m

\* "for attempt in range(max_retries)" has another iteration
MoreAttempts(a, m) == a < m

\* a play command that resumes at the stored position (no position_ms)
PlayCommand_NoPosition(u) == [uris |-> <<u>>, position_ms |-> -1]

\* sp.start_playback(uris=[uri], position_ms=0)
PlayCommand(u) == [uris |-> <<u>>, position_ms |-> 0]

\* a verification that does not look at is_playing
StartVerified_UriOnly(current, u) == current.uri = u

\* "current_uri == uri and is_playing"
StartVerified(current, u) == current.uri = u /\ current.is_playing

\* a verification fetch that maps an exception to "no playback state", as
\* get_playback_state does
AttemptCause_FetchErrorAsNoState(cmd_ok, current, u) ==
    IF ~cmd_ok THEN "cmd_error"
    ELSE IF NothingPlaying(get_playback_state(current)) THEN "no_state"
    ELSE IF StartVerified(current, u) THEN "verified"
    ELSE IF current.uri # u THEN "wrong_uri"
    ELSE "not_playing"

\* how one attempt of start_playback_web_api ends
AttemptCause(cmd_ok, current, u) ==
    IF ~cmd_ok THEN "cmd_error"
    ELSE IF current.kind = "error" THEN "fetch_error"
    ELSE IF NothingPlaying(current) THEN "no_state"
    ELSE IF StartVerified(current, u) THEN "verified"
    ELSE IF current.uri # u THEN "wrong_uri"
    ELSE "not_playing"

\* the attempt reaches "if attempt < max_retries - 1: time.sleep(1)" and sleeps;
\* "continue" (no playback state) and "return True" never reach it
WaitsBeforeRetry(cause, a, m) ==
    /\ cause \in {"cmd_error", "fetch_error", "wrong_uri", "not_playing"}
    /\ a < m - 1

\* the remote service starts or stops enumerating a device
DeviceChange ==
    /\ pc \in {"idle", "launch", "device_loop"}
    /\ device_present' = ~device_present
    /\ UNCHANGED <<recorderVars, recCallVars,
                   op, pc, monitorVars, monArgVars, max_wait, now, start_time,
                   result, pollVars, deviceVars, startVars>>

\* ensure_spotify_device_active(max_wait) is called on its own
CallEnsureDeviceActive ==
    /\ op = "idle"
    /\ \E w \in 0..MaxTimeout : max_wait' = w
    /\ op' = "ensure_spotify_device_active"
    /\ pc' = "launch"
    /\ device_at_call' = device_present
    /\ UNCHANGED <<recorderVars, recCallVars,
                   monitorVars, monArgVars, now, start_time, result, pollVars,
                   device_present, launches, device_polled, device_raw,
                   ensure_result,
                   startVars>>

\* start_playback_web_api(uri, max_retries) is called; it first calls
\* ensure_spotify_device_active() with the default max_wait
CallStartPlayback ==
    /\ op = "idle"
    /\ \E u \in Uris, m \in 0..MaxRetriesBound :
          /\ uri' = u
          /\ max_retries' = m
    /\ op' = "start_playback_web_api"
    /\ pc' = "launch"
    /\ max_wait' = DefaultMaxWait
    /\ device_at_call' = device_present
    /\ UNCHANGED <<recorderVars, recCallVars,
                   monitorVars, monArgVars, now, start_time, result, pollVars,
                   device_present, launches, device_polled, device_raw,
                   ensure_result,
                   attempt, last_attempt, play_cmds>>

\* ensure_spotify_device_active returns r: to the caller of the operation, or
\* into start_playback_web_api.  start_playback_web_api never reads the clock
\* against start_time, so there the time origin is moved to the instant of
\* the return.
EnsureReturns(r) ==
    /\ ensure_result' = r
    /\ IF op = "ensure_spotify_device_active"
       THEN result' = r /\ pc' = "done" /\ UNCHANGED <<now, start_time>>
       ELSE result' = result /\ pc' = "ensured" /\ now' = 0 /\ start_time' = 0

\* ensure_spotify_device_active launching the player only when no device is
\* enumerable
EnsureLaunch_OnlyIfNoDevice ==
    /\ op \in {"ensure_spotify_device_active", "start_playback_web_api"}
    /\ pc = "launch"
    /\ \E l \in (IF device_present THEN {<<>>} ELSE LaunchOutcomes) :
          /\ launches' = l
          /\ IF l = <<>> \/ Last(l).ok
             THEN /\ pc' = "device_loop"
                  /\ start_time' = now
                  /\ UNCHANGED <<now, result, ensure_result>>
             ELSE EnsureReturns("False")
    /\ UNCHANGED <<recorderVars, recCallVars,
                   op, monitorVars, monArgVars, max_wait, pollVars,
                   device_present, device_at_call, device_polled, device_raw,
                   startVars>>

\* ensure_spotify_device_active: the player is launched
EnsureLaunch ==
    /\ op \in {"ensure_spotify_device_active", "start_playback_web_api"}
    /\ pc = "launch"
    /\ \E l \in LaunchOutcomes :
          /\ launches' = l
          /\ IF Last(l).ok
             THEN /\ pc' = "device_loop"
                  /\ start_time' = now
                  /\ UNCHANGED <<now, result, ensure_result>>
             ELSE EnsureReturns("False")
    /\ UNCHANGED <<recorderVars, recCallVars,
                   op, monitorVars, monArgVars, max_wait, pollVars,
                   device_present, device_at_call, device_polled, device_raw,
                   startVars>>

\* ensure_spotify_device_active: one iteration of the device loop
EnsurePoll ==
    /\ op \in {"ensure_spotify_device_active", "start_playback_web_api"}
    /\ pc = "device_loop"
    /\ WithinLimit(now, start_time, max_wait)
    /\ \E r \in DeviceResponses, d \in Latencies :
          /\ device_polled' = TRUE
          /\ device_raw' = r
          /\ IF DevicesFound(r)
             THEN EnsureReturns("True")
             ELSE /\ now' = now + d + DevicePollMs
                  /\ UNCHANGED <<result, ensure_result, pc, start_time>>
    /\ UNCHANGED <<recorderVars, recCallVars,
                   op, monitorVars, monArgVars, max_wait, pollVars,
                   device_present, device_at_call, launches, startVars>>

\* ensure_spotify_device_active: max_wait has elapsed
EnsureTimeout ==
    /\ op \in {"ensure_spotify_device_active", "start_playback_web_api"}
    /\ pc = "device_loop"
    /\ ~WithinLimit(now, start_time, max_wait)
    /\ EnsureReturns("False")
    /\ UNCHANGED <<recorderVars, recCallVars,
                   op, monitorVars, monArgVars, max_wait,
                   pollVars, device_present, device_at_call, launches,
                   device_polled, device_raw, startVars>>

\* start_playback_web_api: the result of the device activation is tested
StartAfterEnsure ==
    /\ op = "start_playback_web_api" /\ pc = "ensured"
    /\ IF DeviceReady(ensure_result)
       THEN pc' = "attempt" /\ attempt' = 0 /\ UNCHANGED result
       ELSE pc' = "done" /\ result' = "False" /\ UNCHANGED attempt
    /\ UNCHANGED <<recorderVars, recCallVars,
                   op, monitorVars, monArgVars, max_wait, now, start_time,
                   pollVars, device_present, deviceVars, uri, max_retries,
                   last_attempt, play_cmds>>

\* start_playback_web_api: one iteration of the retry loop
StartAttempt ==
    /\ op = "start_playback_web_api" /\ pc = "attempt"
    /\ MoreAttempts(attempt, max_retries)
    /\ \E cmd_ok \in BOOLEAN, r \in RawResponses :
         LET cause  == AttemptCause(cmd_ok, r, uri)
             waited == WaitsBeforeRetry(cause, attempt, max_retries) IN
          /\ cmd_ok \/ r = NoPlayback
          /\ play_cmds' = Append(play_cmds, PlayCommand(uri))
          /\ last_attempt' = [cause |-> cause, waited |-> waited]
          /\ attempt' = attempt + 1
          /\ IF cmd_ok
             THEN raw' = r /\ polls' = polls + 1
             ELSE UNCHANGED <<raw, polls>>
          /\ now' = now + (IF cmd_ok THEN SettleMs ELSE 0)
                        + (IF waited THEN RetryWaitMs ELSE 0)
          /\ IF cause = "verified"
             THEN result' = "True" /\ pc' = "done"
             ELSE UNCHANGED <<result, pc>>
    /\ UNCHANGED <<recorderVars, recCallVars,
                   op, monitorVars, monArgVars, max_wait, start_time, script,
                   poll_at, seen_start, seen_reset, hook_calls, device_present,
                   deviceVars, uri, max_retries>>

\* start_playback_web_api: the retry loop is used up
StartExhausted ==
    /\ op = "start_playback_web_api" /\ pc = "attempt"
    /\ ~MoreAttempts(attempt, max_retries)
    /\ result' = "False"
    /\ pc' = "done"
    /\ UNCHANGED <<recorderVars, recCallVars,
                   op, monitorVars, monArgVars, max_wait, now, start_time,
                   pollVars, device_present, deviceVars, startVars>>

----------------------------------------------------------------------------
(* SpotifyRecorder: recording and cleanup *)

ExpectedDurations == {1, 180}
FileSizes == {0, 20479, 20480, 3000000, 3600000, 3686399, 3686400, 4000000}

\* how subprocess.run(spotdl_cmd, check=True) can end: exit status 0, a
\* non-zero exit status, KeyboardInterrupt while it waits, any other exception
RunOutcomes == {"exit0", "nonzero", "interrupt", "error"}

\* a size threshold of 20 000 bytes per second
MinExpectedSize_Decimal(dur) == dur * 20 * 1000

\* "min_expected_size = expected_duration_s * 20 * 1024"
MinExpectedSize(dur) == dur * 20 * 1024

\* record_track_simple with check=False and no test of the exit status
RecordOutcome_IgnoresExit(run, exists, size, dur) ==
    IF run = "interrupt" THEN "interrupted"
    ELSE IF run = "error" THEN "unexpected"
    ELSE IF ~exists THEN "not_created"
    ELSE IF size < MinExpectedSize(dur) THEN "too_small"
    ELSE "ok"

\* the branch record_track_simple returns from.  With check=True a non-zero
\* exit status raises CalledProcessError, so "if result.returncode != 0" is
\* never taken and the exit status is handled by the first except clause.
RecordOutcome(run, exists, size, dur) ==
    IF run = "interrupt" THEN "interrupted"
    ELSE IF run = "error" THEN "unexpected"
    ELSE IF run = "nonzero" THEN "recording_failed"
    ELSE IF ~exists THEN "not_created"
    ELSE IF size < MinExpectedSize(dur) THEN "too_small"
    ELSE "ok"

\* the value each branch returns
RecordReturn(kind) == IF kind = "ok" THEN "True" ELSE "False"

\* the branches that call self._cleanup_recording() before returning
CleanupAfter(kind) == kind \in {"interrupted", "unexpected"}

\* a cleanup that sends SIGKILL at once
KillSequence_KillOnly(pid, alive_at_term, alive_at_kill) ==
    IF pid = "None" THEN <<>>
    ELSE <<[sig |-> "SIGKILL", delivered |-> alive_at_term]>>

\* the os.kill calls of _cleanup_recording: none without a pid; SIGTERM, then
\* (unless SIGTERM raised ProcessLookupError) SIGKILL after 0.5 s
KillSequence(pid, alive_at_term, alive_at_kill) ==
    IF pid = "None" THEN <<>>
    ELSE IF ~alive_at_term
    THEN <<[sig |-> "SIGTERM", delivered |-> FALSE]>>
    ELSE <<[sig |-> "SIGTERM", delivered |-> TRUE],
           [sig |-> "SIGKILL", delivered |-> alive_at_kill]>>

\* subprocess.run(["pkill", "pw-record"]), which may raise
Sweep(sweep_raises) == <<[sig |-> "pkill pw-record", delivered |-> ~sweep_raises]>>

\* _cleanup_recording without the try around the sweep
CleanupResult_Unhandled(sweep_raises) == IF sweep_raises THEN "raised" ELSE "None"

\* what _cleanup_recording gives its caller: every exception is caught
CleanupResult(sweep_raises) == "None"

\* the body of _cleanup_recording
CleanupRecording(alive_at_term, alive_at_kill, sweep_raises) ==
    /\ signals' = signals \o KillSequence(recording_pid, alive_at_term, alive_at_kill)
                          \o Sweep(sweep_raises)
    /\ cleanups' = cleanups + 1
    /\ cleanup_states' = Append(cleanup_states, <<recording_process, recording_pid>>)
    /\ UNCHANGED recorderVars

\* _cleanup_recording() is called, for the first time or again right after
\* it returned
CallCleanupRecording ==
    /\ \/ op = "idle"
       \/ op = "_cleanup_recording" /\ pc = "done" /\ result = "None"
    /\ cleanups < MaxCleanupRuns
    /\ \E a1 \in BOOLEAN, a2 \in BOOLEAN, sw \in BOOLEAN :
          /\ CleanupRecording(a1, a2, sw)
          /\ result' = CleanupResult(sw)
    /\ op' = "_cleanup_recording"
    /\ pc' = "done"
    /\ UNCHANGED <<monitorVars, monArgVars, max_wait, now, start_time,
                   pollVars, device_present, deviceVars, startVars,
                   expected_duration_s, run_outcome, file_exists, file_size,
                   error_kind, remaining_ms>>

\* record_track_simple keeping the pid of the capture process it starts
CallRecordTrack_KeepsPid ==
    /\ op = "idle"
    /\ \E u \in Uris, dur \in ExpectedDurations :
          /\ uri' = u
          /\ expected_duration_s' = dur
    /\ op' = "record_track_simple"
    /\ pc' = "run"
    /\ recording_pid' = "pid"
    /\ UNCHANGED <<recording_process, monitorVars, monArgVars, max_wait, now,
                   start_time, result, pollVars, device_present, deviceVars,
                   max_retries, attempt, last_attempt, play_cmds, run_outcome,
                   file_exists, file_size, error_kind, cleanups, signals,
                   cleanup_states, remaining_ms>>

\* record_track_simple(uri, filepath, expected_duration_s) is called and
\* starts the capture process
CallRecordTrack ==
    /\ op = "idle"
    /\ \E u \in Uris, dur \in ExpectedDurations :
          /\ uri' = u
          /\ expected_duration_s' = dur
    /\ op' = "record_track_simple"
    /\ pc' = "run"
    /\ UNCHANGED <<recorderVars, monitorVars, monArgVars, max_wait, now,
                   start_time, result, pollVars, device_present, deviceVars,
                   max_retries, attempt, last_attempt, play_cmds, run_outcome,
                   file_exists, file_size, error_kind, cleanups, signals,
                   cleanup_states, remaining_ms>>

\* record_track_simple: subprocess.run ends, the artifact is checked, the
\* call returns
RecordTrackEnds ==
    /\ op = "record_track_simple" /\ pc = "run"
    /\ \E run \in RunOutcomes, ex \in BOOLEAN, sz \in FileSizes,
          a1 \in BOOLEAN, a2 \in BOOLEAN, sw \in BOOLEAN :
         LET kind == RecordOutcome(run, ex, sz, expected_duration_s) IN
          /\ ex \/ sz = 0
          /\ run_outcome' = run
          /\ file_exists' = ex
          /\ file_size' = sz
          /\ error_kind' = kind
          /\ IF CleanupAfter(kind)
             THEN CleanupRecording(a1, a2, sw)
             ELSE /\ a1 /\ a2 /\ ~sw
                  /\ UNCHANGED <<recorderVars, cleanups, signals, cleanup_states>>
          /\ result' = RecordReturn(kind)
    /\ pc' = "done"
    /\ UNCHANGED <<op, monitorVars, monArgVars, max_wait, now, start_time,
                   pollVars, device_present, deviceVars, startVars,
                   expected_duration_s, remaining_ms>>

\* the operation in progress has returned; the caller takes the result
Return ==
    /\ pc = "done"
    /\ op' = "idle"
    /\ pc' = "idle"
    /\ expected_uri' = "None"
    /\ timeout' = 0
    /\ max_wait' = 0
    /\ on_change' = FALSE
    /\ now' = 0
    /\ start_time' = 0
    /\ result' = "pending"
    /\ script' = <<>>
    /\ polls' = 0
    /\ raw' = NoPlayback
    /\ poll_at' = 0
    /\ seen_start' = FALSE
    /\ seen_reset' = FALSE
    /\ hook_calls' = <<>>
    /\ device_at_call' = FALSE
    /\ launches' = <<>>
    /\ device_polled' = FALSE
    /\ device_raw' = "unpolled"
    /\ ensure_result' = "pending"
    /\ uri' = "None"
    /\ max_retries' = 0
    /\ attempt' = 0
    /\ last_attempt' = NoAttempt
    /\ play_cmds' = <<>>
    /\ expected_duration_s' = 0
    /\ run_outcome' = "none"
    /\ file_exists' = FALSE
    /\ file_size' = 0
    /\ error_kind' = "none"
    /\ cleanups' = 0
    /\ signals' = <<>>
    /\ cleanup_states' = <<>>
    /\ remaining_ms' = 0
    /\ UNCHANGED <<monitorVars, device_present, recorderVars>>

Next ==
    \/ CallWaitForTrackStart
    \/ PollTrackStart
    \/ TimeoutTrackStart
    \/ CallWaitForPositionReset
    \/ PollPositionReset
    \/ TimeoutPositionReset
    \/ CallMonitorUntilTrackChange
    \/ PollMonitor
    \/ CallGetPlaybackState
    \/ CallGetRemainingTime
    \/ DeviceChange
    \/ CallEnsureDeviceActive
    \/ CallStartPlayback
    \/ EnsureLaunch
    \/ EnsurePoll
    \/ EnsureTimeout
    \/ StartAfterEnsure
    \/ StartAttempt
    \/ StartExhausted
    \/ CallCleanupRecording
    \/ CallRecordTrack
    \/ RecordTrackEnds
    \/ Return

Spec == Init /\ [][Next]_vars

\* _cleanup_recording reads self.recording_pid, a public attribute that no
\* method of the class assigns.  HandleSpec runs the recording and cleanup
\* operations of a recorder whose recording_pid was either left at None or
\* set, by the code that owns the recorder, to the pid of a capture process.
InitHandle ==
    /\ op = "idle"
    /\ pc = "idle"
    /\ current_track_id = "None"
    /\ current_track_uri = "None"
    /\ expected_uri = "None"
    /\ timeout = 0
    /\ max_wait = 0
    /\ on_change = FALSE
    /\ now = 0
    /\ start_time = 0
    /\ result = "pending"
    /\ script = <<>>
    /\ polls = 0
    /\ raw = NoPlayback
    /\ poll_at = 0
    /\ seen_start = FALSE
    /\ seen_reset = FALSE
    /\ hook_calls = <<>>
    /\ device_present \in BOOLEAN
    /\ device_at_call = FALSE
    /\ launches = <<>>
    /\ device_polled = FALSE
    /\ device_raw = "unpolled"
    /\ ensure_result = "pending"
    /\ uri = "None"
    /\ max_retries = 0
    /\ attempt = 0
    /\ last_attempt = NoAttempt
    /\ play_cmds = <<>>
    /\ recording_process = "None"
    /\ recording_pid \in {"None", "pid"}
    /\ expected_duration_s = 0
    /\ run_outcome = "none"
    /\ file_exists = FALSE
    /\ file_size = 0
    /\ error_kind = "none"
    /\ cleanups = 0
    /\ signals = <<>>
    /\ cleanup_states = <<>>
    /\ remaining_ms = 0

HandleNext ==
    \/ CallCleanupRecording
    \/ CallRecordTrack
    \/ RecordTrackEnds
    \/ Return

HandleSpec == InitHandle /\ [][HandleNext]_vars

\* The steps the running program takes by itself: the interpreter goes on
\* executing a loop, every remote call and every sleep returns.
TimedStep ==
    \/ PollTrackStart
    \/ TimeoutTrackStart
    \/ PollPositionReset
    \/ TimeoutPositionReset
    \/ EnsureLaunch
    \/ EnsurePoll
    \/ EnsureTimeout

\* Spec under advancing time
LiveSpec == Init /\ [][Next]_vars /\ WF_vars(TimedStep)

----------------------------------------------------------------------------
(* Properties *)

MonitorOps == {"wait_for_track_start", "wait_for_position_reset",
               "monitor_until_track_change"}

\* C1: wait_for_track_start returns True exactly when one of its polls, all
\* begun before the timeout elapsed, observed expected_uri playing with
\* progress < 2000 ms; it returns False only once the timeout has elapsed.
\* Fed <<absent, absent, {uriX, playing, 500}>> it returns True as soon as the
\* third poll is made; fed the same sequence ending in progress 5000 it
\* returns False.
C1_WaitForTrackStart ==
    op = "wait_for_track_start" =>
       /\ pc = "loop" => result = "pending" /\ ~seen_start
       /\ pc = "done" => result \in {"True", "False"}
       /\ pc = "done" => (result = "True" <=> seen_start)
       /\ polls > 0 => poll_at < timeout * 1000
       /\ result = "False" => now - start_time >= timeout * 1000
       /\ (script = ScriptStartOk /\ expected_uri = "uriX" /\ polls >= 3)
             => (pc = "done" /\ result = "True")
       /\ (script = ScriptStartLate /\ expected_uri = "uriX" /\ pc = "done")
             => result = "False"

C1_Witness ==
    /\ op = "wait_for_track_start" /\ pc = "done" /\ result = "True"
    /\ script = ScriptStartOk /\ expected_uri = "uriX" /\ polls = 3

\* C2: monitor_until_track_change returns the observed URI on the first poll
\* whose URI differs from current_track_uri, having invoked on_change (when
\* one is passed) exactly once with that URI and the snapshot; while every
\* poll so far reported current_track_uri it has not returned and has not
\* invoked on_change.
C2_MonitorReturnsOnChange ==
    op = "monitor_until_track_change" =>
       /\ (pc = "loop" /\ polls > 0) =>
             raw.kind = "item" /\ raw.uri = current_track_uri
       /\ (polls > 0 /\ raw.kind = "item" /\ raw.uri = current_track_uri) =>
             /\ pc = "loop"
             /\ result = "pending"
             /\ hook_calls = <<>>
       /\ (polls > 0 /\ raw.kind = "item" /\ raw.uri # current_track_uri) =>
             /\ pc = "done"
             /\ result = raw.uri
             /\ hook_calls = IF on_change THEN << <<raw.uri, raw>> >> ELSE <<>>
       /\ Len(hook_calls) <= 1

C2_Witness ==
    /\ op = "monitor_until_track_change" /\ pc = "done" /\ polls = 3
    /\ current_track_uri = "uriX" /\ raw.kind = "item" /\ result = "uriY"
    /\ on_change /\ Len(hook_calls) = 1

\* C3: monitor_until_track_change returns None without invoking on_change
\* when a poll reports that nothing is playing; fed three consecutive
\* "nothing playing" polls it returns None.
C3_MonitorReturnsNoneWhenStopped ==
    op = "monitor_until_track_change" =>
       /\ (polls > 0 /\ raw.kind \in {"none", "noitem"}) =>
             pc = "done" /\ result = "None" /\ hook_calls = <<>>
       /\ (script = ScriptStopped /\ polls > 0) =>
             pc = "done" /\ result = "None" /\ hook_calls = <<>>

C3_Witness ==
    /\ op = "monitor_until_track_change" /\ pc = "done" /\ on_change
    /\ script = ScriptStopped /\ result = "None" /\ hook_calls = <<>>

\* C4: a poll whose remote call fails never makes a monitor operation return;
\* an operation that has returned after a failed poll has returned False
\* because its timeout elapsed.
C4_TransientErrorsAbsorbed ==
    (op \in MonitorOps /\ polls > 0 /\ raw.kind = "error" /\ pc = "done") =>
       /\ op # "monitor_until_track_change"
       /\ result = "False"

\* C5: once the device is active, start_playback_web_api issues as many play
\* commands as the index of the first verified attempt and returns True, or
\* max_retries commands when no attempt verifies and returns False; no
\* command follows a verified attempt.
C5_PlayCommandCount ==
    (op = "start_playback_web_api" /\ ensure_result = "True") =>
       /\ Len(play_cmds) = attempt
       /\ Len(play_cmds) <= max_retries
       /\ (pc = "attempt" /\ attempt > 0) => last_attempt.cause # "verified"
       /\ last_attempt.cause = "verified" => pc = "done" /\ result = "True"
       /\ pc = "done" =>
             IF last_attempt.cause = "verified"
             THEN result = "True"
             ELSE result = "False" /\ Len(play_cmds) = max_retries

C5_Witness ==
    /\ op = "start_playback_web_api" /\ pc = "done" /\ max_retries = 3
    /\ result = "True" /\ Len(play_cmds) = 2

\* C6: in start_playback_web_api every unverified attempt is followed by the
\* 1 s wait exactly when it is not the final attempt, whatever made the
\* verification fail.
C6_WaitBeforeEveryRetry ==
    (op = "start_playback_web_api" /\ attempt > 0
        /\ last_attempt.cause # "verified") =>
       (last_attempt.waited <=> attempt < max_retries)

\* C7: start_playback_web_api issues a play command only after
\* ensure_spotify_device_active returned True; when it returned False the
\* call returns False with no play command, no verification fetch and no
\* second activation.
C7_NoPlayWithoutDevice ==
    op = "start_playback_web_api" =>
       /\ (play_cmds # <<>> \/ pc = "attempt") => ensure_result = "True"
       /\ ensure_result = "False" =>
             /\ play_cmds = <<>> /\ polls = 0 /\ attempt = 0
             /\ pc \in {"ensured", "done"}
             /\ pc = "done" => result = "False"

C7_Witness ==
    /\ op = "start_playback_web_api" /\ pc = "done" /\ max_retries = 3
    /\ ensure_result = "False" /\ result = "False" /\ play_cmds = <<>>

\* C8: start_playback_web_api returns True only when the snapshot fetched
\* after a play command shows the target URI with is_playing true.
C8_SuccessOnlyWhenVerified ==
    (op = "start_playback_web_api" /\ result = "True") =>
       /\ play_cmds # <<>> /\ polls > 0 /\ polls <= Len(play_cmds)
       /\ raw.kind = "item" /\ raw.uri = uri /\ raw.is_playing

C8_Witness ==
    /\ op = "start_playback_web_api" /\ result = "True"
    /\ raw.kind = "item" /\ raw.uri = uri /\ raw.is_playing

\* C9 as claimed: whenever start_playback_web_api returns True, the verifying
\* snapshot's progress is inside the start-detection window.
C9_SuccessNearStart ==
    (op = "start_playback_web_api" /\ result = "True") =>
       raw.progress_ms < StartWindowMs

\* C9 as amended: whenever start_playback_web_api returns True, the last play
\* command asked for the target URI at position 0 and the snapshot fetched
\* after it shows that URI playing; the progress of that snapshot is not
\* checked.
C9_SuccessAfterPlayFromZero ==
    (op = "start_playback_web_api" /\ result = "True") =>
       /\ play_cmds # <<>>
       /\ Last(play_cmds).uris = <<uri>>
       /\ Last(play_cmds).position_ms = 0
       /\ raw.uri = uri /\ raw.is_playing

C9_Witness ==
    /\ op = "start_playback_web_api" /\ result = "True"
    /\ Last(play_cmds).position_ms = 0 /\ raw.progress_ms = 5000

\* C10 as claimed: when a device is already enumerable at the call, no player
\* process is spawned.
C10_NoLaunchWhenDevicePresent ==
    (op \in {"ensure_spotify_device_active", "start_playback_web_api"}
        /\ device_at_call) =>
       \A i \in 1..Len(launches) : ~launches[i].ok

\* C10 as amended: ensure_spotify_device_active launches the player on every
\* call, whether or not a device is already enumerable: a launch has been
\* attempted before it returns, and spawned before any device enumeration.
C10_LaunchAlwaysFirst ==
    op \in {"ensure_spotify_device_active", "start_playback_web_api"} =>
       /\ pc # "launch" => launches # <<>>
       /\ (device_polled \/ pc = "device_loop" \/ ensure_result = "True") =>
             (launches # <<>> /\ Last(launches).ok)

C10_Witness ==
    /\ op = "ensure_spotify_device_active" /\ pc = "done"
    /\ device_at_call /\ launches # <<>> /\ Last(launches).ok
    /\ result = "True"

EnsureOps == {"ensure_spotify_device_active", "start_playback_web_api"}

\* C11: when every launch path fails ensure_spotify_device_active returns
\* False without calling sp.devices(); otherwise it returns True exactly when
\* a sp.devices() call reported a device, a call that raised or reported no
\* device being followed by another poll, and it returns False only once
\* max_wait has elapsed.
C11_EnsureActiveOutcome ==
    op \in EnsureOps =>
       /\ (launches # <<>> /\ ~Last(launches).ok) =>
             ensure_result = "False" /\ ~device_polled /\ device_raw = "unpolled"
       /\ ensure_result = "True" <=> device_raw = "devices"
       /\ device_polled <=> device_raw # "unpolled"
       /\ pc = "device_loop" => ensure_result = "pending"
       /\ op = "ensure_spotify_device_active" =>
             /\ pc = "done" => result = ensure_result /\ result \in {"True", "False"}
             /\ (pc = "done" /\ result = "False" /\ Last(launches).ok) =>
                   now - start_time >= max_wait * 1000

C11_Witness ==
    /\ op = "ensure_spotify_device_active" /\ pc = "done" /\ result = "True"
    /\ ~device_at_call /\ device_raw = "devices" /\ now - start_time >= 1000

RecordDone == op = "record_track_simple" /\ pc = "done"

\* C12: record_track_simple checks the exit status, then the existence of
\* the file, then its size, and returns True exactly when all three hold: a
\* non-zero exit status is a failure whatever the file is, a missing file is
\* a failure, a file below the threshold is a failure, a file at or above it
\* is a success.
C12_RecordPostConditions ==
    RecordDone =>
       /\ run_outcome = "nonzero" =>
             result = "False" /\ error_kind = "recording_failed"
       /\ (run_outcome = "exit0" /\ ~file_exists) =>
             result = "False" /\ error_kind = "not_created"
       /\ (run_outcome = "exit0" /\ file_exists
              /\ file_size < MinExpectedSize(expected_duration_s)) =>
             result = "False" /\ error_kind = "too_small"
       /\ (run_outcome = "exit0" /\ file_exists
              /\ file_size >= MinExpectedSize(expected_duration_s)) =>
             result = "True" /\ error_kind = "ok"
       /\ result = "True" =>
             /\ run_outcome = "exit0" /\ file_exists
             /\ file_size >= MinExpectedSize(expected_duration_s)

C12_Witness ==
    /\ RecordDone /\ run_outcome = "nonzero" /\ file_exists
    /\ file_size = 4000000 /\ result = "False"

\* C13 as claimed: for an expected duration of 180 s, exit status 0 and an
\* existing file, 3 000 000 bytes are too small, 4 000 000 bytes succeed and
\* every size from 3 600 000 bytes on succeeds.
C13_ThresholdDecimal ==
    (RecordDone /\ expected_duration_s = 180 /\ run_outcome = "exit0"
        /\ file_exists) =>
       /\ file_size = 3000000 => result = "False" /\ error_kind = "too_small"
       /\ file_size = 4000000 => result = "True"
       /\ file_size >= 3600000 => result = "True"

\* C13 as amended: the threshold for 180 s is 180 * 20 * 1024 = 3 686 400
\* bytes: sizes below it (3 000 000, 3 600 000) are too small, sizes from it
\* on (4 000 000) succeed.
C13_ThresholdBinary ==
    (RecordDone /\ expected_duration_s = 180 /\ run_outcome = "exit0"
        /\ file_exists) =>
       /\ file_size = 3000000 => result = "False" /\ error_kind = "too_small"
       /\ file_size = 4000000 => result = "True"
       /\ file_size >= 3686400 => result = "True"
       /\ file_size < 3686400 => result = "False" /\ error_kind = "too_small"

C13_Witness ==
    /\ RecordDone /\ expected_duration_s = 180 /\ run_outcome = "exit0"
    /\ file_exists /\ file_size = 3600000
    /\ result = "False" /\ error_kind = "too_small"

\* C14: _cleanup_recording has run on every exit path of record_track_simple
\* that returns a failure.
C14_CleanupOnEveryFailure ==
    (RecordDone /\ result = "False") => cleanups >= 1

\* C15: the value record_track_simple returns after a cancellation differs
\* from the values it returns for a failed capture process, a missing file
\* and a file that is too small.
C15_InterruptedDistinct ==
    (RecordDone /\ error_kind = "interrupted") =>
       \A k \in {"recording_failed", "not_created", "too_small"} :
          result # RecordReturn(k)

\* C16: with no pid held, _cleanup_recording called twice in succession
\* raises nothing, sends no signal to a process of its own, and leaves
\* recording_process and recording_pid after the second call as after the
\* first.
C16_CleanupIdempotent ==
    (op = "_cleanup_recording" /\ recording_pid = "None") =>
       /\ pc = "done" /\ result = "None"
       /\ Len(cleanup_states) = cleanups
       /\ \A i \in 1..Len(cleanup_states) :
             /\ cleanup_states[i] = cleanup_states[1]
             /\ cleanup_states[i] = <<recording_process, recording_pid>>
       /\ Len(signals) = cleanups
       /\ \A i \in 1..Len(signals) : signals[i].sig = "pkill pw-record"

C16_Witness ==
    /\ op = "_cleanup_recording" /\ pc = "done" /\ cleanups = 2
    /\ recording_pid = "None" /\ result = "None"
    /\ ~signals[1].delivered /\ ~signals[2].delivered

\* C17: wait_for_position_reset returns True exactly when one of its polls,
\* all begun before max_wait elapsed, observed expected_uri with progress
\* below 1000 ms, and False only once max_wait has elapsed.  Fed
\* <<{uriX, 1500}, {uriX, 200}>> it does not accept the first snapshot and
\* accepts the second.
C17_WaitForPositionReset ==
    op = "wait_for_position_reset" =>
       /\ pc = "loop" => result = "pending" /\ ~seen_reset
       /\ pc = "done" => result \in {"True", "False"}
       /\ pc = "done" => (result = "True" <=> seen_reset)
       /\ result = "True" =>
             raw.kind = "item" /\ raw.uri = expected_uri /\ raw.progress_ms < 1000
       /\ polls > 0 => poll_at < max_wait * 1000
       /\ result = "False" => now - start_time >= max_wait * 1000
       /\ (script = ScriptReset /\ expected_uri = "uriX") =>
             /\ polls = 1 => result # "True"
             /\ polls >= 2 => pc = "done" /\ result = "True"

C17_Witness ==
    /\ op = "wait_for_position_reset" /\ pc = "done" /\ result = "True"
    /\ script = ScriptReset /\ expected_uri = "uriX" /\ polls = 2
    /\ raw.progress_ms = 200

\* C18: get_remaining_time returns None without a snapshot and otherwise
\* duration_ms - progress_ms, which is never negative: a snapshot whose
\* progress has reached the duration does not give a negative remaining time.
C18_RemainingNeverNegative ==
    (op = "get_remaining_time" /\ pc = "done") =>
       /\ raw.kind # "item" => result = "None"
       /\ raw.kind = "item" =>
             /\ result = "int"
             /\ remaining_ms >= 0
             /\ raw.progress_ms < raw.duration_ms =>
                   remaining_ms = raw.duration_ms - raw.progress_ms

\* C19: a call of get_playback_state makes one remote call, never raises,
\* returns None when the remote call raised, and leaves current_track_id and
\* current_track_uri as they were.
C19_FetchAbsorbsErrors ==
    /\ [](op = "get_playback_state" =>
             /\ pc = "done" /\ polls = 1
             /\ result # "raised"
             /\ raw.kind = "error" => result = "None"
             /\ raw.kind = "item" => result = "playback")
    /\ [][op' = "get_playback_state" => UNCHANGED monitorVars]_vars

C19_Witness ==
    /\ op = "get_playback_state" /\ pc = "done" /\ polls = 1
    /\ raw.kind = "error" /\ result = "None"

\* C20: current_track_id and current_track_uri change only in the step in
\* which wait_for_track_start succeeds, where they become the id and the URI
\* of the qualifying snapshot, the URI being expected_uri; no other step of
\* any operation changes them.
C20_SessionFrame ==
    /\ [](current_track_id = IdOf(current_track_uri))
    /\ []((op = "wait_for_track_start" /\ result = "True") =>
             /\ current_track_uri = expected_uri
             /\ current_track_uri = raw.uri /\ current_track_id = raw.id)
    /\ [][monitorVars' # monitorVars =>
             /\ op = "wait_for_track_start" /\ pc = "loop"
             /\ pc' = "done" /\ result' = "True"
             /\ raw'.kind = "item" /\ raw'.is_playing /\ raw'.progress_ms < 2000
             /\ current_track_uri' = expected_uri
             /\ current_track_id' = raw'.id]_vars

C20_Witness ==
    /\ op = "monitor_until_track_change" /\ pc = "done" /\ result = "uriY"
    /\ current_track_uri = "uriX" /\ current_track_id = "idX"

\* C21: wait_for_track_start, wait_for_position_reset and
\* ensure_spotify_device_active always terminate.  Under advancing time a
\* call that is in one of their loops eventually returns, whatever the polls
\* report; no poll is begun once the limit has elapsed, so the elapsed time
\* never exceeds the limit by more than one iteration (one remote call and
\* one sleep), and a call that made no qualifying observation returns False.
TimedOps == {"wait_for_track_start", "wait_for_position_reset",
             "ensure_spotify_device_active", "start_playback_web_api"}

InTimedLoop ==
    /\ op \in TimedOps
    /\ pc \in {"loop", "launch", "device_loop"}

LimitOf == IF op = "wait_for_track_start" THEN timeout ELSE max_wait

C21_TimedLoopsTerminate ==
    /\ [](InTimedLoop =>
             now - start_time
                < LimitOf * 1000 + MaxLatencyTicks * 500 + DevicePollMs)
    /\ []((op \in {"wait_for_track_start", "wait_for_position_reset"}
             /\ polls > 0) => poll_at < LimitOf * 1000)
    /\ []((op = "wait_for_track_start" /\ pc = "done" /\ ~seen_start)
             => result = "False")
    /\ []((op = "wait_for_position_reset" /\ pc = "done" /\ ~seen_reset)
             => result = "False")
    /\ []((op = "ensure_spotify_device_active" /\ pc = "done"
             /\ device_raw # "devices") => result = "False")
    /\ [](InTimedLoop => <>(~InTimedLoop))

C21_Witness ==
    /\ op = "wait_for_track_start" /\ pc = "done" /\ result = "False"
    /\ timeout = MaxTimeout /\ polls = 2 * MaxTimeout /\ raw.kind = "error"

\* C22: monitor_until_track_change has no timeout.  It returns only in a step
\* whose poll reported no playback or a URI other than current_track_uri;
\* while every poll reports current_track_uri it has not returned and the
\* next poll can be made, however much time has passed and even when that is
\* more than the duration of the track (a track on repeat).
C22_MonitorHasNoTimeout ==
    /\ []((op = "monitor_until_track_change" /\ pc = "done") =>
             /\ polls > 0
             /\ raw.kind # "item" \/ raw.uri # current_track_uri)
    /\ []((op = "monitor_until_track_change" /\ pc = "loop") =>
             /\ result = "pending"
             /\ polls > 0 => raw.kind = "item" /\ raw.uri = current_track_uri
             /\ polls < MaxPolls => ENABLED PollMonitor)
    /\ []((op = "monitor_until_track_change" /\ script = ScriptRepeat
             /\ current_track_uri = "uriX") => pc = "loop")
    /\ [][(op = "monitor_until_track_change" /\ pc = "loop" /\ pc' # "loop") =>
             /\ polls' = polls + 1
             /\ raw'.kind # "item" \/ raw'.uri # current_track_uri]_vars

C22_Witness ==
    /\ op = "monitor_until_track_change" /\ pc = "loop"
    /\ script = ScriptRepeat /\ current_track_uri = "uriX"
    /\ polls = MaxPolls
    /\ now - start_time > raw.duration_ms

\* C23: start_playback_web_api never propagates a remote error.  An attempt
\* whose play command raised (no fetch is made) or whose verification fetch
\* raised is counted as one attempt, is followed by the 1 s wait exactly when
\* it is not the last one, as an attempt that found the wrong track is, and
\* leaves the call running; when the attempts are used up the call returns
\* False.
RemoteErrors == {"cmd_error", "fetch_error"}

C23_StartAbsorbsRemoteErrors ==
    /\ [](op = "start_playback_web_api" =>
             /\ result \in {"pending", "True", "False"}
             /\ last_attempt.cause \in RemoteErrors =>
                   /\ attempt > 0 /\ Len(play_cmds) = attempt
                   /\ last_attempt.waited <=> attempt < max_retries
                   /\ pc \in {"attempt", "done"}
                   /\ pc = "done" => result = "False" /\ attempt = max_retries
                   /\ pc = "attempt" => result = "pending")
    /\ [][(op = "start_playback_web_api" /\ attempt' = attempt + 1) =>
             /\ Len(play_cmds') = Len(play_cmds) + 1
             /\ polls' = polls => last_attempt'.cause = "cmd_error"
             /\ (polls' = polls + 1 /\ raw'.kind = "error") =>
                   last_attempt'.cause = "fetch_error"
             /\ last_attempt'.cause \in RemoteErrors \cup {"wrong_uri"} =>
                   /\ last_attempt'.waited <=> attempt' < max_retries
                   /\ pc' = "attempt" /\ result' = "pending"]_vars

C23_Witness ==
    /\ op = "start_playback_web_api" /\ pc = "done" /\ result = "False"
    /\ max_retries = 3 /\ attempt = 3 /\ Len(play_cmds) = 3
    /\ last_attempt.cause = "fetch_error" /\ raw.kind = "error"

\* C24: every execution of _cleanup_recording first deals with the process
\* whose pid the recorder holds (SIGTERM; SIGKILL follows, after the 0.5 s
\* wait, only when SIGTERM reached a live process, and then finds the process
\* either alive or gone; a process that is gone is not an error) and then
\* attempts the pkill sweep, whether or not a pid is held.  Without a pid only
\* the sweep is attempted.
SweepTries == {<<[sig |-> "pkill pw-record", delivered |-> b]>> : b \in BOOLEAN}

ProcessTries(pid) ==
    IF pid = "None" THEN {<<>>}
    ELSE {<<[sig |-> "SIGTERM", delivered |-> FALSE]>>}
         \cup {<<[sig |-> "SIGTERM", delivered |-> TRUE],
                 [sig |-> "SIGKILL", delivered |-> b]>> : b \in BOOLEAN}

OneCleanup(pid) == {p \o w : p \in ProcessTries(pid), w \in SweepTries}

RECURSIVE CleanupRuns(_, _)
CleanupRuns(pid, n) ==
    IF n = 0 THEN {<<>>}
    ELSE {r \o c : r \in CleanupRuns(pid, n - 1), c \in OneCleanup(pid)}

C25_NoHandleAcquired ==
    /\ recording_process = "None"
    /\ recording_pid = "None"
    /\ \A i \in 1..Len(signals) : signals[i].sig = "pkill pw-record"
    /\ \A i \in 1..Len(cleanup_states) : cleanup_states[i] = <<"None", "None">>
    /\ Len(signals) = cleanups
    /\ (op = "record_track_simple" /\ run_outcome = "interrupt") =>
          /\ error_kind = "interrupted"
          /\ Len(signals) = 1

C25_Witness ==
    /\ op = "record_track_simple" /\ pc = "done" /\ result = "False"
    /\ run_outcome = "interrupt" /\ error_kind = "interrupted"
    /\ signals = <<[sig |-> "pkill pw-record", delivered |-> TRUE]>>
    /\ recording_pid = "None"

\* C26: when monitor_until_track_change runs while current_track_uri is None
\* (no wait_for_track_start has succeeded on this monitor), its first poll is
\* its last: a poll that reports an item, playing or not, makes it return
\* that item's URI after invoking on_change (when one is passed) with it,
\* although no track change occurred.
C26_UnsetSessionReportsChange ==
    (op = "monitor_until_track_change" /\ current_track_uri = "None") =>
       /\ polls <= 1
       /\ polls = 0 <=> pc = "loop"
       /\ (polls = 1 /\ raw.kind = "item") =>
             /\ pc = "done"
             /\ result = raw.uri
             /\ result \in Uris
             /\ hook_calls = IF on_change THEN << <<raw.uri, raw>> >> ELSE <<>>

C26_Witness ==
    /\ op = "monitor_until_track_change" /\ pc = "done"
    /\ current_track_uri = "None" /\ current_track_id = "None"
    /\ polls = 1 /\ raw.kind = "item" /\ ~raw.is_playing
    /\ result = "uriX" /\ on_change /\ Len(hook_calls) = 1

\* C27: with max_retries <= 0 the loop of start_playback_web_api has no
\* iteration.  The call still launches the player and polls for a device;
\* when a device is found it issues no play command, fetches no snapshot and
\* returns False.
C27_NoAttemptWithoutRetries ==
    /\ \A m \in (0 - MaxRetriesBound)..0 : ~MoreAttempts(0, m)
    /\ (op = "start_playback_web_api" /\ max_retries <= 0) =>
          /\ play_cmds = <<>> /\ polls = 0 /\ attempt = 0
          /\ last_attempt = NoAttempt
          /\ result \in {"pending", "False"}
          /\ pc = "done" => result = "False"
          /\ pc # "launch" => launches # <<>>
          /\ ensure_result = "True" => device_polled /\ device_raw = "devices"
          /\ pc = "attempt" => ensure_result = "True"

C27_Witness ==
    /\ op = "start_playback_web_api" /\ pc = "done" /\ result = "False"
    /\ max_retries = 0 /\ ensure_result = "True"
    /\ launches # <<>> /\ device_polled /\ device_raw = "devices"
    /\ play_cmds = <<>> /\ polls = 0

====
